---- MODULE Spec2Model ----
(***************************************************************************)
(* A model of python_instrumentation.py: the value serializer, the sample  *)
(* cache (TypeCache), the call interceptor (FunctionWrapper), the module   *)
(* instrumentor behind the import hook (InstrumentationLoader) and the     *)
(* process life cycle (install, exit finalizers).                          *)
(*                                                                         *)
(* Python values are records over a fixed heap, so that containers may     *)
(* hold themselves.  Strings that the code inspects or converts (mapping   *)
(* keys, attribute names, paramData keys) are sequences of one-character   *)
(* strings.  JSON values are tagged records.                               *)
(***************************************************************************)
EXTENDS Integers, Sequences, FiniteSets, TLC

\* ------------------------------------------------------------------ bounds

\* calls recorded in one run of the general specification
MaxCalls == 2
\* TypeCache objects constructed in one process (install_instrumentation calls)
MaxInstalls == 2
\* processes that exit in one run
MaxExits == 1
\* calls recorded in one run of the long-run (eviction) specifications
MaxLongCalls == 52
\* calls recorded in one run of the mixed-convention eviction specification
MaxBoundCalls == 27
\* the largest max_depth argument handed to the serializer besides the default
MaxDepthArg == 2
\* imports in one run of the import specification
MaxImports == 2
\* wrapper calls in progress at one time in the import specification
MaxNest == 2

\* --------------------------------------------------------------- constants

\* class attribute TypeCache.MAX_SAMPLES_PER_PARAM
MAX_SAMPLES_PER_PARAM == 50
\* default of the parameter max_depth of TypeCache._serialize_value
DEFAULT_MAX_DEPTH == 10

\* ------------------------------------------------------------ Python values

\* A mapping key or attribute name: a str (its characters), an int, or an
\* object whose __str__ raises.
StrKey(chars) == [kt |-> "str", ki |-> 0, ks |-> chars]
IntKey(i) == [kt |-> "int", ki |-> i, ks |-> <<>>]
BadKey == [kt |-> "badstr", ki |-> 0, ks |-> <<>>]

\* A value: kind says which branch of _serialize_value takes it; a container's
\* kids are <<key, heap address>> pairs (a list's keys are its 0-based indices).
PyObj(kind, ival, sval, kids) == [kind |-> kind, ival |-> ival, sval |-> sval, kids |-> kids]
PyInt(n) == PyObj("int", n, "", <<>>)
PyStr(s) == PyObj("str", 0, s, <<>>)
PyNone == PyObj("none", 0, "", <<>>)
PyFunc == PyObj("callable", 0, "", <<>>)
\* an object without __dict__ whose str() works / raises
PyOpaque(s) == PyObj("opaque", 0, s, <<>>)
PyOpaqueBad == PyObj("opaque_badstr", 0, "", <<>>)
\* an object whose attribute lookup (__getattribute__) raises
PyAttrBad == PyObj("attr_raises", 0, "", <<>>)
Kid(k, a) == [k |-> k, v |-> a]
PyList(addrs) == PyObj("list", 0, "", [i \in DOMAIN addrs |-> Kid(IntKey(i - 1), addrs[i])])
PyDict(kids) == PyObj("dict", 0, "", kids)
PyInstance(kids) == PyObj("object", 0, "", kids)

\* The object graph the arguments are drawn from.
Heap ==
  <<PyInt(2),                                                        \* 1
    PyInt(3),                                                        \* 2
    PyInt(5),                                                        \* 3
    PyInt(7),                                                        \* 4
    PyNone,                                                          \* 5
    PyFunc,                                                          \* 6
    PyList(<<1, 2>>),                                                \* 7
    PyList(<<8>>),                                                   \* 8  l = [l]
    PyDict(<<Kid(StrKey(<<"k">>), 1), Kid(IntKey(1), 7)>>),          \* 9
    PyDict(<<Kid(StrKey(<<"n">>), 1), Kid(StrKey(<<"s">>), 10)>>),   \* 10 d["s"] = d
    PyInstance(<<Kid(StrKey(<<"x">>), 1),
                 Kid(StrKey(<<"_", "h">>), 2)>>),                    \* 11 {x: 2, _h: 3}
    PyDict(<<Kid(BadKey, 1)>>),                                      \* 12
    PyOpaque("<obj>"),                                               \* 13
    PyOpaqueBad,                                                     \* 14
    PyAttrBad,                                                       \* 15
    PyInstance(<<Kid(StrKey(<<"m">>), 16)>>),                        \* 16 o.m = o
    PyList(<<18>>),                                                  \* 17 [ {"u": ^} ]
    PyDict(<<Kid(StrKey(<<"u">>), 17)>>),                            \* 18
    PyList(<<7, 12>>),                                               \* 19
    PyDict(<<Kid(IntKey(1), 1), Kid(StrKey(<<"1">>), 2)>>),          \* 20 {1: 2, "1": 3}
    PyList(<<22>>),                                                  \* 21 [[[5]]]
    PyList(<<23>>),                                                  \* 22
    PyList(<<3>>),                                                   \* 23
    PyStr("s")>>                                                     \* 24

Addrs == DOMAIN Heap

\* The addresses reachable from address a in one or more steps.
RECURSIVE ReachFrom(_, _)
ReachFrom(front, seen) ==
  LET next == UNION {{Heap[a].kids[i].v : i \in DOMAIN Heap[a].kids} : a \in front}
  IN IF next \subseteq seen THEN seen ELSE ReachFrom(next \ seen, seen \cup next)

\* a contains itself, directly or through other containers
SelfReferential(a) == a \in ReachFrom({a}, {})

\* ------------------------------------------------------------- JSON values

JVal(t, i, s, items) == [t |-> t, i |-> i, s |-> s, items |-> items]
JNull == JVal("null", 0, "", <<>>)
JInt(n) == JVal("int", n, "", <<>>)
JStr(s) == JVal("str", 0, s, <<>>)
\* items: <<key characters, JSON value>> pairs; a list's keys are empty
JItem(k, v) == [k |-> k, v |-> v]
JList(items) == JVal("list", 0, "", items)
JDict(items) == JVal("dict", 0, "", items)
\* not a JSON value: the exception a call ended with
Raised(what) == JVal("raise", 0, what, <<>>)
IsRaised(j) == j.t = "raise"

MaxDepthMarker == JStr("[Max Depth Exceeded]")
FunctionMarker == JStr("[Function]")
UnserializableMarker == JStr("[Unserializable]")

\* --------------------------------------------------------- str(), dict keys

Digits == <<"0", "1", "2", "3", "4", "5", "6", "7", "8", "9">>

\* str(n) of a natural number, as characters
RECURSIVE StrOfNat(_)
StrOfNat(n) == IF n < 10 THEN <<Digits[n + 1]>>
               ELSE Append(StrOfNat(n \div 10), Digits[(n % 10) + 1])

\* str(k) of a mapping key: it raises, or gives the key's characters
StrRaises(k) == k.kt = "badstr"
StrOfKey(k) == IF k.kt = "int" THEN StrOfNat(k.ki) ELSE k.ks

\* name.startswith('_')
StartsWithUnderscore(chars) == Len(chars) > 0 /\ chars[1] = "_"

\* d[k] = v on an insertion-ordered dict given as <<k, v>> items: an existing
\* key keeps its place and takes the new value, a new key goes last.
DictSet(items, k, v) ==
  IF \E i \in DOMAIN items : items[i].k = k
  THEN [i \in DOMAIN items |-> IF items[i].k = k THEN JItem(k, v) ELSE items[i]]
  ELSE Append(items, JItem(k, v))

\* -------------------------------------------------- TypeCache._serialize_value

\* mutant: the guard one level late
DepthExceededLate(depth, max_depth) == depth > max_depth + 1
\* line 99: the depth guard
DepthExceeded(depth, max_depth) == depth > max_depth

\* lines 99-109 and 128-132: what a value that is not walked into serializes to
\* (a container within the depth bound is walked by SerializeKids)
IsContainer(obj) == obj.kind \in {"list", "dict", "object"}
SerializeLeaf(obj) ==
  CASE obj.kind = "none" -> JNull
    [] obj.kind = "callable" -> FunctionMarker
    [] obj.kind = "int" -> JInt(obj.ival)
    [] obj.kind = "str" -> JStr(obj.sval)
    [] obj.kind = "attr_raises" -> Raised("attribute lookup")
    [] obj.kind = "opaque" -> JStr(obj.sval)
    [] obj.kind = "opaque_badstr" -> UnserializableMarker
    [] OTHER -> Raised("not a leaf")

\* mutant: a list built by inserting each element at the front
AddKidAtFront(obj, acc, i, j) ==
  LET k == obj.kids[i].k IN
  CASE obj.kind = "list" -> <<JItem(<<>>, j)>> \o acc
    [] obj.kind = "dict" -> DictSet(acc, StrOfKey(k), j)
    [] OTHER -> DictSet(acc, k.ks, j)
\* one step of the loops at lines 112, 116-117 and 123-125: the result so far
\* (acc) extended by kid number i, whose serialized value is j
AddKid(obj, acc, i, j) ==
  LET k == obj.kids[i].k IN
  CASE obj.kind = "list" -> Append(acc, JItem(<<>>, j))
    [] obj.kind = "dict" -> DictSet(acc, StrOfKey(k), j)
    [] OTHER -> DictSet(acc, k.ks, j)

\* line 124: a private attribute is skipped without being serialized
SkipsKid(obj, i) == obj.kind = "object" /\ StartsWithUnderscore(obj.kids[i].k.ks)
\* line 117: str(k) is evaluated after the value and may raise
KeyRaises(obj, i) == obj.kind = "dict" /\ StrRaises(obj.kids[i].k)
Container(obj, items) == IF obj.kind = "list" THEN JList(items) ELSE JDict(items)

RECURSIVE serialize_value(_, _, _)
RECURSIVE SerializeKids(_, _, _, _, _)
SerializeKids(obj, i, acc, depth, max_depth) ==
  IF i > Len(obj.kids) THEN Container(obj, acc)
  ELSE IF SkipsKid(obj, i) THEN SerializeKids(obj, i + 1, acc, depth, max_depth)
  ELSE LET j == serialize_value(Heap[obj.kids[i].v], depth + 1, max_depth) IN
       IF IsRaised(j) THEN j
       ELSE IF KeyRaises(obj, i) THEN Raised("str(key)")
       ELSE SerializeKids(obj, i + 1, AddKid(obj, acc, i, j), depth, max_depth)

serialize_value(obj, depth, max_depth) ==
  IF DepthExceeded(depth, max_depth) THEN MaxDepthMarker
  ELSE IF IsContainer(obj) THEN SerializeKids(obj, 1, <<>>, depth, max_depth)
  ELSE SerializeLeaf(obj)

\* ------------------------------------------------------------------ TypeCache

\* The functions that are recorded, with the parameter names inspect.signature
\* gives for them.
FuncNames == {"m.add", "m.f"}
Signature(func_name) == IF func_name = "m.add" THEN <<"a", "b">> ELSE <<"x">>

\* self.cache: an insertion-ordered dict, here the sequence of its entries
\*   [name, callCount, paramNames, paramData]
\* with paramData an insertion-ordered dict too: <<key, samples>> items whose
\* keys are int (IntKey, as record_call writes them) or str (StrKey, as
\* json.load reads them).
EmptyCache == <<>>
Entry(name, callCount, paramNames, paramData) ==
  [name |-> name, callCount |-> callCount, paramNames |-> paramNames, paramData |-> paramData]
PItem(k, samples) == [k |-> k, v |-> samples]

Has(cache, name) == \E e \in DOMAIN cache : cache[e].name = name
IndexOf(cache, name) == CHOOSE e \in DOMAIN cache : cache[e].name = name
Get(cache, name) == cache[IndexOf(cache, name)]

HasKey(pd, k) == \E i \in DOMAIN pd : pd[i].k = k
Samples(pd, k) == pd[CHOOSE i \in DOMAIN pd : pd[i].k = k].v
SetKey(pd, k, samples) ==
  IF HasKey(pd, k)
  THEN [i \in DOMAIN pd |-> IF pd[i].k = k THEN PItem(k, samples) ELSE pd[i]]
  ELSE Append(pd, PItem(k, samples))

\* json.dump (line 51): every paramData key is written as its string form, so
\* the keys 0 and "0" are written as two members named "0"
DumpKey(k) == StrKey(StrOfKey(k))
json_dump(cache) ==
  [e \in DOMAIN cache |->
     Entry(cache[e].name, cache[e].callCount, cache[e].paramNames,
           [i \in DOMAIN cache[e].paramData |->
              PItem(DumpKey(cache[e].paramData[i].k), cache[e].paramData[i].v)])]

\* json.load (line 35): of two members with one name the later value is kept
RECURSIVE LoadObject(_, _, _)
LoadObject(members, i, acc) ==
  IF i > Len(members) THEN acc
  ELSE LoadObject(members, i + 1, SetKey(acc, members[i].k, members[i].v))
json_load(data) ==
  [e \in DOMAIN data |->
     Entry(data[e].name, data[e].callCount, data[e].paramNames,
           LoadObject(data[e].paramData, 1, <<>>))]

\* The cache file: absent, unparsable, or JSON text (its members in order).
NoFile == [kind |-> "absent", data |-> <<>>]
MalformedFile == [kind |-> "malformed", data |-> <<>>]
JsonFile(data) == [kind |-> "json", data |-> data]

\* TypeCache.load (lines 30-38).  io: whether open/read works ("ok") or raises
\* ("read_fails").  A missing file leaves self.cache as it is.
LoadFails(fileState, io) == io = "read_fails" \/ fileState.kind = "malformed"
load(cache, fileState, io) ==
  IF fileState.kind = "absent" THEN cache
  ELSE IF LoadFails(fileState, io) THEN EmptyCache
  ELSE json_load(fileState.data)

\* mutant: the guard of line 42 left out
SaveNeverSkipped(cache) == FALSE
\* line 42: `if not self.cache: return`
SaveSkipped(cache) == cache = EmptyCache

\* TypeCache.save (lines 40-53): the file afterwards.  io: "ok", "open_fails"
\* (makedirs or open raises: the file is untouched) or "write_fails" (open has
\* truncated the file and the write raises part-way).
save(cache, fileState, io) ==
  IF SaveSkipped(cache) THEN fileState
  ELSE CASE io = "open_fails" -> fileState
         [] io = "write_fails" -> MalformedFile
         [] OTHER -> JsonFile(json_dump(cache))

\* lines 78-79: `if len(samples) >= MAX: samples.pop(0)`
AtCapacity(samples) == Len(samples) >= MAX_SAMPLES_PER_PARAM
\* mutants: the eviction left out; samples.pop() (the newest) for samples.pop(0)
EvictNothing(samples) == samples
EvictNewest(samples) ==
  IF AtCapacity(samples) THEN SubSeq(samples, 1, Len(samples) - 1) ELSE samples
Evict(samples) == IF AtCapacity(samples) THEN Tail(samples) ELSE samples

\* mutant: the increment left out
KeepCallCount(n) == n
\* line 68
IncrementCallCount(n) == n + 1

\* The samples record_call takes from one call, in the order it takes them:
\* <<index, value>> for each positional argument (line 71), then for each
\* parameter name that is a key of kwargs (lines 84-85), at the name's index.
Item(i, obj) == [i |-> i, obj |-> obj]
KwHas(kwargs, name) == \E j \in DOMAIN kwargs : kwargs[j].k = name
KwGet(kwargs, name) == kwargs[CHOOSE j \in DOMAIN kwargs : kwargs[j].k = name].v
\* mutant: the 1-based position of the name taken for its index
KeywordPosition(i) == i
\* enumerate() counts from 0: the i-th name of param_names has index i - 1
KeywordIndex(i) == i - 1
PositionalItems(args) == [i \in DOMAIN args |-> Item(i - 1, args[i])]
RECURSIVE KeywordItems(_, _, _)
KeywordItems(kwargs, param_names, i) ==
  IF i > Len(param_names) THEN <<>>
  ELSE (IF KwHas(kwargs, param_names[i])
        THEN <<Item(KeywordIndex(i), KwGet(kwargs, param_names[i]))>> ELSE <<>>)
       \o KeywordItems(kwargs, param_names, i + 1)

\* The loop body (lines 72-81 and 86-95) run over the items from number n on:
\* the key is created before the value is serialized, and a raise leaves
\* everything done so far in place.
RECURSIVE RecordItems(_, _, _, _)
RecordItems(pd, items, n, evicted) ==
  IF n > Len(items) THEN [pd |-> pd, raised |-> FALSE, evicted |-> evicted]
  ELSE LET k == IntKey(items[n].i)
           pd1 == IF HasKey(pd, k) THEN pd ELSE SetKey(pd, k, <<>>)
           serialized == serialize_value(items[n].obj, 0, DEFAULT_MAX_DEPTH)
           samples == Samples(pd1, k)
       IN IF IsRaised(serialized)
          THEN [pd |-> pd1, raised |-> TRUE, evicted |-> evicted]
          ELSE RecordItems(SetKey(pd1, k, Append(Evict(samples), serialized)), items, n + 1,
                           evicted + (IF AtCapacity(samples) THEN 1 ELSE 0))

\* mutant: self.cache rebound to a dict that holds the entry alone
PutEntryAlone(cache, e, entry) == <<entry>>
\* lines 58-95: self.cache[func_name] is created or updated in place
PutEntry(cache, e, entry) == [cache EXCEPT ![e] = entry]

\* TypeCache.record_call (lines 55-95): [cache, raised, evicted], the cache
\* afterwards, whether the call raised, and how many samples it evicted.
record_call(cache, func_name, args, kwargs, param_names) ==
  LET c1 == IF Has(cache, func_name) THEN cache
            ELSE Append(cache, Entry(func_name, 0, param_names, <<>>))
      e == IndexOf(c1, func_name)
      names == IF Len(param_names) > 0 THEN param_names ELSE c1[e].paramNames
      r == RecordItems(c1[e].paramData,
                       PositionalItems(args) \o KeywordItems(kwargs, param_names, 1), 1, 0)
  IN [cache |-> PutEntry(c1, e, Entry(func_name, IncrementCallCount(c1[e].callCount),
                                      names, r.pd)),
      raised |-> r.raised, evicted |-> r.evicted]

\* ------------------------------------------------------------ FunctionWrapper

\* A call: the positional arguments and the keyword arguments (in call order).
Call(args, kwargs) == [args |-> args, kwargs |-> kwargs]
Kw(name, obj) == [k |-> name, v |-> obj]
NoCall == Call(<<>>, <<>>)

\* What a callable ends with: it returns a value or raises an exception.
Outcome(kind, v) == [kind |-> kind, v |-> v]
NoOutcome == Outcome("none", 0)
FuncOutcomes == {Outcome("return", 1), Outcome("raise", 1)}

\* FunctionWrapper(func, func_name, type_cache): type_cache is the index of the
\* TypeCache object; param_names (line 142) is the signature of func.
Wrapper(func_name, type_cache) == [func_name |-> func_name, type_cache |-> type_cache]

\* mutant: record_call called outside the try statement
CatchesNothing(raised) == FALSE
\* line 156: `except Exception` catches whatever record_call raised
Catches(raised) == raised
\* line 159: the arguments self.func is called with
Forwarded(call) == call
\* line 159: `return self.func(...)`: the caller gets the callable's outcome
WrapperOutcome(fout) == fout

\* What the caller of a wrapper saw when the call ended.
Observation(call, fcall, invoked, fout, wout) ==
  [call |-> call, fcall |-> fcall, invoked |-> invoked, fout |-> fout, wout |-> wout]
NoObservation == Observation(NoCall, NoCall, 0, NoOutcome, NoOutcome)

\* ------------------------------------------------------ InstrumentationLoader

\* Paths and the strings they are searched for are sequences of characters.
\* NoPath: a module without __file__ (module_file is None).
NoPath == <<>>
\* the current directory of the process
Cwd == <<"/", "c">>
\* the workspace_root argument handed to install_instrumentation
WorkspaceRootArg == <<"/", "w", "/">>

\* s.startswith(prefix)
StartsWith(s, prefix) ==
  Len(prefix) <= Len(s) /\ SubSeq(s, 1, Len(prefix)) = prefix
\* sub in s
Contains(s, sub) ==
  \E i \in 0..(Len(s) - Len(sub)) : SubSeq(s, i + 1, i + Len(sub)) = sub

\* os.path.abspath on the paths used here (no "." or ".." components, no
\* doubled slashes): a relative path is joined to the current directory, and
\* trailing slashes are dropped
RECURSIVE StripSlashes(_)
StripSlashes(path) ==
  IF Len(path) > 1 /\ path[Len(path)] = "/"
  THEN StripSlashes(SubSeq(path, 1, Len(path) - 1)) ELSE path
abspath(path) ==
  StripSlashes(IF StartsWith(path, <<"/">>) THEN path ELSE Cwd \o <<"/">> \o path)

Pycache == <<"_", "_", "p", "y", "c", "a", "c", "h", "e", "_", "_">>
SlashTest == <<"/", "t", "e", "s", "t">>
BackslashTest == <<"\\", "t", "e", "s", "t">>
SitePackages == <<"s", "i", "t", "e", "-", "p", "a", "c", "k", "a", "g", "e", "s">>

\* InstrumentationLoader(type_cache, workspace_root), lines 190-193
Loader(type_cache, workspace_root) ==
  [type_cache |-> type_cache, workspace_root |-> abspath(workspace_root),
   instrumented_modules |-> {}]

\* line 206: the test made on the module's path
InWorkspace(module_path, workspace_root) == StartsWith(module_path, workspace_root)

\* InstrumentationLoader.should_instrument (lines 195-219)
should_instrument(ld, module_name, module_file) ==
  IF module_name \in ld.instrumented_modules THEN FALSE
  ELSE IF module_file = NoPath THEN FALSE
  ELSE LET module_path == abspath(module_file) IN
       IF ~InWorkspace(module_path, ld.workspace_root) THEN FALSE
       ELSE IF \/ Contains(module_path, Pycache)
               \/ Contains(module_path, SlashTest)
               \/ Contains(module_path, BackslashTest) THEN FALSE
       ELSE IF Contains(module_path, SitePackages) THEN FALSE
       ELSE TRUE

\* An object bound in a module: the kind of the original ("function" for a
\* callable, "value" for anything else), the original's __module__ ("" when
\* it has none) and the FunctionWrapper objects around it, outermost last.
Obj(kind, owner) == [kind |-> kind, owner |-> owner, layers |-> <<>>]
Binding(name, obj) == [name |-> name, obj |-> obj]

\* The modules of the process, with their files and what their code binds.
ModuleNames == {"m", "o", "s", "t", "b"}
ModuleFile(module_name) ==
  CASE module_name = "m" -> <<"/", "w", "/", "m">>
    [] module_name = "o" -> <<"/", "o", "/", "o">>
    [] module_name = "s" -> <<"/", "w", "2", "/", "s">>
    [] module_name = "t" -> <<"/", "w", "/", "t", "e", "s", "t", "/", "t">>
    [] OTHER -> NoPath
ModuleDict(module_name) ==
  CASE module_name = "m" ->
         <<Binding(<<"g">>, Obj("function", "o")),
           Binding(<<"K">>, Obj("value", "")),
           Binding(<<"a", "d", "d">>, Obj("function", "m")),
           Binding(<<"f">>, Obj("function", "m")),
           Binding(<<"_", "p">>, Obj("function", "m"))>>
    [] module_name = "o" -> <<Binding(<<"g">>, Obj("function", "o"))>>
    [] module_name = "s" -> <<Binding(<<"h">>, Obj("function", "s"))>>
    [] module_name = "t" -> <<Binding(<<"t", "f">>, Obj("function", "t"))>>
    [] OTHER -> <<Binding(<<"l", "e", "n">>, Obj("function", "b"))>>

\* line 243: f"{module_name}.{name}", for the names bound above
QualifiedName(module_name, name) ==
  CASE module_name = "m" /\ name = <<"f">> -> "m.f"
    [] module_name = "m" /\ name = <<"a", "d", "d">> -> "m.add"
    [] module_name = "m" /\ name = <<"g">> -> "m.g"
    [] module_name = "m" /\ name = <<"K">> -> "m.K"
    [] module_name = "m" /\ name = <<"_", "p">> -> "m._p"
    [] module_name = "o" -> "o.g"
    [] module_name = "s" -> "s.h"
    [] module_name = "t" -> "t.tf"
    [] OTHER -> "b.len"

\* mutant: a wrapper that passes for the function it wraps (not recognised by
\* isinstance, and with the function's __module__)
IsWrapperNever(obj) == FALSE
\* isinstance(obj, FunctionWrapper), callable(obj), and obj.__module__, which
\* for a FunctionWrapper is the module that defines the class
IsWrapper(obj) == obj.layers # <<>>
IsCallable(obj) == IsWrapper(obj) \/ obj.kind = "function"
ModuleAttr(obj) == IF IsWrapper(obj) THEN "python_instrumentation" ELSE obj.owner

\* mutant: every public callable is wrapped
EligibleAnyCallable(module_name, b) ==
  IsCallable(b.obj) /\ ~StartsWithUnderscore(b.name)
\* lines 236-242: the bindings that are wrapped
Eligible(module_name, b) ==
  /\ IsCallable(b.obj) /\ ~StartsWithUnderscore(b.name)
  /\ ~IsWrapper(b.obj)
  /\ ModuleAttr(b.obj) # "" /\ ModuleAttr(b.obj) = module_name

\* lines 243-246: the binding after setattr(module, name, wrapped)
Wrapped(module_name, b, type_cache) ==
  Binding(b.name, [b.obj EXCEPT !.layers =
                     Append(@, Wrapper(QualifiedName(module_name, b.name), type_cache))])

\* InstrumentationLoader.instrument_module (lines 221-248) on a module with
\* the bindings ns: the loader and the bindings afterwards, whether
\* should_instrument was called and whether the module was instrumented
instrument_module(ld, module_name, module_file, ns) ==
  IF module_name \in ld.instrumented_modules
  THEN [loader |-> ld, ns |-> ns, evaluated |-> FALSE, instrumented |-> FALSE]
  ELSE IF ~should_instrument(ld, module_name, module_file)
  THEN [loader |-> ld, ns |-> ns, evaluated |-> TRUE, instrumented |-> FALSE]
  ELSE [loader |-> [ld EXCEPT !.instrumented_modules = @ \cup {module_name}],
        ns |-> [i \in DOMAIN ns |->
                  IF Eligible(module_name, ns[i])
                  THEN Wrapped(module_name, ns[i], ld.type_cache) ELSE ns[i]],
        evaluated |-> TRUE, instrumented |-> TRUE]

\* the FunctionWrapper objects reachable through the bindings ns
WrappersOf(ns) ==
  UNION {{ns[i].obj.layers[k] : k \in DOMAIN ns[i].obj.layers} : i \in DOMAIN ns}

\* -------------------------------------------------------------------- state

VARIABLES
  file,        \* the cache file
  caches,      \* the TypeCache objects of the process: self.cache of each
  loaded,      \* history: self.cache of each when its constructor returned
  tc,          \* _type_cache: an index of caches, 0 for None
  finalizers,  \* the number of functions registered with atexit
  wrappers,    \* the FunctionWrapper objects of the process
  stack,       \* the wrapper calls in progress, innermost last
  calls,       \* history: the record_call calls made on each TypeCache, by function
  clock,       \* history: the number of record_call calls of the run
  last,        \* history: the operation that ended last
  exits,       \* history: the number of processes that have exited
  ser,         \* a _serialize_value call run step by step
  modules,     \* the bindings of each module of the process (module.__dict__)
  loaders,     \* the InstrumentationLoader objects of the process
  loader,      \* _loader: an index of loaders, 0 for None
  evals,       \* history: the should_instrument calls of each loader, by module
  imp          \* history: the import that ended last, and how many there were

vars == <<file, caches, loaded, tc, finalizers, wrappers, stack, calls, clock, last, exits,
          ser, modules, loaders, loader, evals, imp>>

\* what the import hook works on
instr == <<modules, loaders, loader, evals, imp>>

\* op: the operation; c: the TypeCache it acted on; f, call: the function and
\* the call recorded; raised: whether record_call raised, or load found the
\* file missing or failed; evicted: the samples record_call evicted; obs: what
\* the caller of a wrapper saw
Op(op, c, f, call, raised, evicted, obs) ==
  [op |-> op, c |-> c, f |-> f, call |-> call, raised |-> raised, evicted |-> evicted,
   obs |-> obs]
NoOp == Op("none", 0, "", NoCall, FALSE, 0, NoObservation)

SerIdle == [pc |-> "idle", root |-> 1, max_depth |-> 0, frames |-> <<>>, result |-> JNull,
            deepest |-> 0]

InitFiles == {NoFile, MalformedFile}

\* n: the imports of the run; module, loader: the module imported last and the
\* loader that handled it; evaluated, instrumented: what instrument_module did
NoImport == [n |-> 0, module |-> "", loader |-> 0, evaluated |-> FALSE, instrumented |-> FALSE]

Init ==
  /\ file \in InitFiles
  /\ caches = <<>>
  /\ loaded = <<>>
  /\ tc = 0
  /\ finalizers = 0
  /\ wrappers = {}
  /\ stack = <<>>
  /\ calls = <<>>
  /\ clock = 0
  /\ last = NoOp
  /\ exits = 0
  /\ ser = SerIdle
  /\ modules = [m \in ModuleNames |-> ModuleDict(m)]
  /\ loaders = <<>>
  /\ loader = 0
  /\ evals = <<>>
  /\ imp = NoImport

LoadIO == {"ok", "read_fails"}
SaveIO == {"ok", "open_fails", "write_fails"}

\* install_instrumentation (lines 267-281): a new TypeCache, whose constructor
\* (lines 25-28) loads the file, becomes _type_cache, a new loader for it
\* becomes _loader, and one more finalizer is registered.
Install ==
  /\ Len(caches) < MaxInstalls
  /\ \E io \in LoadIO :
       LET c == load(EmptyCache, file, io) IN
       /\ caches' = Append(caches, c)
       /\ loaded' = Append(loaded, c)
  /\ calls' = Append(calls, [f \in FuncNames |-> 0])
  /\ tc' = Len(caches) + 1
  /\ loaders' = Append(loaders, Loader(Len(caches) + 1, WorkspaceRootArg))
  /\ loader' = Len(loaders) + 1
  /\ evals' = Append(evals, [m \in ModuleNames |-> 0])
  /\ finalizers' = finalizers + 1
  /\ last' = Op("install", Len(caches) + 1, "", NoCall, FALSE, 0, NoObservation)
  /\ UNCHANGED <<file, wrappers, stack, clock, exits, ser, modules, imp>>

\* FunctionWrapper(obj, func_name, self.type_cache) at line 245, for a function
\* that is not wrapped yet.
Wrap(f) ==
  /\ tc # 0
  /\ \A w \in wrappers : w.func_name # f
  /\ wrappers' = wrappers \cup {Wrapper(f, tc)}
  /\ last' = Op("wrap", tc, f, NoCall, FALSE, 0, NoObservation)
  /\ UNCHANGED <<instr, file, caches, loaded, tc, finalizers, stack, calls, clock, exits, ser>>

\* the effect on the state of record_call called on object c for function f
Recorded(c, f, r) ==
  /\ caches' = [caches EXCEPT ![c] = r.cache]
  /\ calls' = [calls EXCEPT ![c][f] = @ + 1]
  /\ clock' = clock + 1

\* TypeCache.record_call called on object c
RecordCall(c, f, call, names) ==
  LET r == record_call(caches[c], f, call.args, call.kwargs, names) IN
  /\ Recorded(c, f, r)
  /\ last' = Op("record_call", c, f, call, r.raised, r.evicted, NoObservation)
  /\ UNCHANGED <<instr, file, loaded, tc, finalizers, wrappers, stack, exits, ser>>

Frame(w, call, raised) == [w |-> w, call |-> call, raised |-> raised]

\* mutant: the call recorded after self.func has returned
RecordedAtReturn(point) == point = "return"
\* lines 154-159: record_call is called on entry, before self.func
RecordedAt(point) == point = "enter"

\* record_call as the wrapper w calls it, when it is called at this point
RecordAt(point, w, call) ==
  IF RecordedAt(point)
  THEN record_call(caches[w.type_cache], w.func_name, call.args, call.kwargs,
                   Signature(w.func_name))
  ELSE [cache |-> caches[w.type_cache], raised |-> FALSE, evicted |-> 0]

\* FunctionWrapper.__call__, lines 154-157: record the call; an exception that
\* the except clause does not catch ends the call before self.func is called.
CallEnter(w, call) ==
  LET r == RecordAt("enter", w, call)
  IN
  /\ IF RecordedAt("enter") THEN Recorded(w.type_cache, w.func_name, r)
     ELSE UNCHANGED <<caches, calls, clock>>
  /\ IF r.raised /\ ~Catches(r.raised)
     THEN /\ stack' = stack
          /\ last' = Op("call", w.type_cache, w.func_name, call, r.raised, r.evicted,
                        Observation(call, NoCall, 0, NoOutcome, Outcome("raise", 0)))
     ELSE /\ stack' = Append(stack, Frame(w, call, r.raised))
          /\ last' = Op("recorded", w.type_cache, w.func_name, call, r.raised, r.evicted,
                        NoObservation)
  /\ UNCHANGED <<instr, file, loaded, tc, finalizers, wrappers, exits, ser>>

\* FunctionWrapper.__call__, line 159: the innermost call in progress calls
\* self.func, which ends with fout.
CallReturn(fout) ==
  /\ stack # <<>>
  /\ LET fr == stack[Len(stack)] IN
     /\ last' = Op("call", fr.w.type_cache, fr.w.func_name, fr.call, fr.raised, 0,
                   Observation(fr.call, Forwarded(fr.call), 1, fout, WrapperOutcome(fout)))
     /\ IF RecordedAt("return") /\ fout.kind = "return"
        THEN Recorded(fr.w.type_cache, fr.w.func_name, RecordAt("return", fr.w, fr.call))
        ELSE UNCHANGED <<caches, calls, clock>>
  /\ stack' = SubSeq(stack, 1, Len(stack) - 1)
  /\ UNCHANGED <<instr, file, loaded, tc, finalizers, wrappers, exits, ser>>

\* TypeCache.save called on object c
Save(c, io) ==
  /\ file' = save(caches[c], file, io)
  /\ last' = Op("save", c, "", NoCall, FALSE, 0, NoObservation)
  /\ UNCHANGED <<instr, caches, loaded, tc, finalizers, wrappers, stack, calls, clock, exits, ser>>

\* TypeCache.load called on object c
Load(c, io) ==
  /\ caches' = [caches EXCEPT ![c] = load(@, file, io)]
  /\ last' = Op("load", c, "", NoCall, file.kind = "absent" \/ LoadFails(file, io), 0,
                NoObservation)
  /\ UNCHANGED <<instr, file, loaded, tc, finalizers, wrappers, stack, calls, clock, exits, ser>>

\* The finalizers of line 279 run one after the other; each saves the TypeCache
\* that _type_cache names when it runs.
RECURSIVE RunFinalizers(_, _, _)
RunFinalizers(fileState, ios, n) ==
  IF n > Len(ios) THEN fileState
  ELSE RunFinalizers(IF tc = 0 THEN fileState ELSE save(caches[tc], fileState, ios[n]),
                     ios, n + 1)

\* _instrumented_import (lines 257-264) with the hook installed: the import
\* gives the module object, and _loader.instrument_module works on it.
Import(mod) ==
  /\ loader # 0
  /\ LET r == instrument_module(loaders[loader], mod, ModuleFile(mod), modules[mod]) IN
     /\ loaders' = [loaders EXCEPT ![loader] = r.loader]
     /\ modules' = [modules EXCEPT ![mod] = r.ns]
     /\ wrappers' = wrappers \cup WrappersOf(r.ns)
     /\ evals' = [evals EXCEPT ![loader][mod] = @ + (IF r.evaluated THEN 1 ELSE 0)]
     /\ imp' = [n |-> imp.n + 1, module |-> mod, loader |-> loader,
                evaluated |-> r.evaluated, instrumented |-> r.instrumented]
  /\ last' = Op("import", loaders[loader].type_cache, "", NoCall, FALSE, 0, NoObservation)
  /\ UNCHANGED <<file, caches, loaded, tc, finalizers, stack, calls, clock, exits, ser, loader>>

\* The interpreter exits when no call is in progress: the finalizers run and
\* the objects of the process are gone; the next process starts uninstalled.
Exit ==
  /\ exits < MaxExits
  /\ exits' = exits + 1
  /\ stack = <<>>
  /\ \E ios \in [1..finalizers -> SaveIO] : file' = RunFinalizers(file, ios, 1)
  /\ caches' = <<>>
  /\ loaded' = <<>>
  /\ calls' = <<>>
  /\ tc' = 0
  /\ finalizers' = 0
  /\ wrappers' = {}
  /\ last' = Op("exit", tc, "", NoCall, FALSE, 0, NoObservation)
  /\ modules' = [m \in ModuleNames |-> ModuleDict(m)]
  /\ loaders' = <<>>
  /\ loader' = 0
  /\ evals' = <<>>
  /\ imp' = [NoImport EXCEPT !.n = imp.n]
  /\ UNCHANGED <<stack, clock, ser>>

\* ------------------------------------------------- the general specification

\* The calls made to add(a, b) and to f(x).
AddCalls ==
  {Call(<<PyInt(2), PyInt(3)>>, <<>>),
   Call(<<>>, <<Kw("a", PyInt(5)), Kw("b", PyInt(7))>>),
   Call(<<>>, <<Kw("b", PyInt(3))>>),
   Call(<<PyInt(2), PyInt(3)>>, <<Kw("a", PyInt(5))>>),
   Call(<<PyInt(2), Heap[12]>>, <<>>)}
FCalls ==
  {Call(<<Heap[11]>>, <<>>),
   Call(<<Heap[15]>>, <<>>)}
CallsOf(f) == IF f = "m.add" THEN AddCalls ELSE FCalls

\* install_instrumentation is called once in each process.
InstallOnce == tc = 0 /\ Install

DoRecordCall ==
  /\ clock < MaxCalls
  /\ \E c \in DOMAIN caches, f \in FuncNames :
       \E call \in CallsOf(f) : RecordCall(c, f, call, Signature(f))

DoWrap == \E f \in FuncNames : Wrap(f)

DoCall ==
  /\ clock < MaxCalls
  /\ \E w \in wrappers : \E call \in CallsOf(w.func_name) : CallEnter(w, call)

DoReturn == \E fout \in FuncOutcomes : CallReturn(fout)

DoSave == \E c \in DOMAIN caches, io \in SaveIO : Save(c, io)

DoLoad == \E c \in DOMAIN caches, io \in LoadIO : Load(c, io)

Next ==
  \/ InstallOnce
  \/ DoRecordCall
  \/ DoSave
  \/ DoLoad
  \/ Exit

Spec == Init /\ [][Next]_vars

\* ------------------------------------------------------- calls through wrappers

NextWrap ==
  \/ InstallOnce
  \/ DoWrap
  \/ DoCall
  \/ DoReturn
  \/ Exit

SpecWrap == Init /\ [][NextWrap]_vars

\* ------------------------------------- long runs: one positional argument

\* f(v) with v the number of the call in the run: distinct values, in call order
FifoCall ==
  /\ tc # 0
  /\ clock < MaxLongCalls
  /\ RecordCall(tc, "m.f", Call(<<PyInt(clock + 1)>>, <<>>), Signature("m.f"))

NextFifo ==
  \/ InstallOnce
  \/ FifoCall
  \/ Exit

SpecFifo == Init /\ [][NextFifo]_vars

\* --------------------------- long runs: positional and keyword conventions

\* add called with positional and keyword arguments in one call, a passed
\* both ways (which records a twice and b once)
BoundCalls ==
  {Call(<<PyInt(2), PyInt(2)>>, <<Kw("a", PyInt(2))>>),
   Call(<<PyInt(2)>>, <<Kw("b", PyInt(2)), Kw("a", PyInt(2))>>)}

BoundCall ==
  /\ tc # 0
  /\ clock < MaxBoundCalls
  /\ \E call \in BoundCalls : RecordCall(tc, "m.add", call, Signature("m.add"))

NextBound ==
  \/ InstallOnce
  \/ BoundCall
  \/ Exit

SpecBound == Init /\ [][NextBound]_vars

\* ------------------------------------ imports, re-installs and nested calls

DoImport ==
  /\ imp.n < MaxImports
  /\ \E mod \in ModuleNames : Import(mod)

\* m.f(v) called by name, from outside or from inside a call in progress, with
\* v the number of the call in the run
CallByName ==
  /\ clock < MaxCalls
  /\ Len(stack) < MaxNest
  /\ \E i \in DOMAIN modules["m"] :
       LET b == modules["m"][i] IN
       /\ b.name = <<"f">>
       /\ IsWrapper(b.obj)
       /\ CallEnter(b.obj.layers[Len(b.obj.layers)], Call(<<PyInt(clock + 1)>>, <<>>))

\* install_instrumentation called any number of times in the first process
InstallAgain == exits = 0 /\ Install

NextImport ==
  \/ InstallAgain
  \/ DoImport
  \/ CallByName
  \/ DoReturn
  \/ Exit

SpecImport == Init /\ [][NextImport]_vars

\* ---------------------------------------- _serialize_value, step by step

\* A frame of the recursion: the value (a heap address), the depth argument,
\* where the frame stands ("enter": line 99; "iter": in the loop over the
\* kids), the next kid and the result built so far.
SerFrame(a, depth) == [a |-> a, depth |-> depth, st |-> "enter", i |-> 1, acc |-> <<>>]

SerDepths == (0..MaxDepthArg) \cup {DEFAULT_MAX_DEPTH}

SerStart(a, max_depth) ==
  [pc |-> "run", root |-> a, max_depth |-> max_depth, frames |-> <<SerFrame(a, 0)>>,
   result |-> JNull, deepest |-> 0]

InitSer ==
  /\ file = NoFile
  /\ caches = <<>>
  /\ loaded = <<>>
  /\ tc = 0
  /\ finalizers = 0
  /\ wrappers = {}
  /\ stack = <<>>
  /\ calls = <<>>
  /\ clock = 0
  /\ last = NoOp
  /\ exits = 0
  /\ modules = [m \in ModuleNames |-> ModuleDict(m)]
  /\ loaders = <<>>
  /\ loader = 0
  /\ evals = <<>>
  /\ imp = NoImport
  /\ ser \in {SerStart(a, m) : a \in Addrs, m \in SerDepths}

SerTop == ser.frames[Len(ser.frames)]
SerPop == SubSeq(ser.frames, 1, Len(ser.frames) - 1)

\* the innermost frame returns j to its caller: the outermost caller gets the
\* result; a frame in its loop adds j to its result, unless str(key) raises
\* (line 117); an exception propagates through every frame
SerReturn(j) ==
  IF Len(ser.frames) = 1 \/ IsRaised(j)
  THEN ser' = [ser EXCEPT !.pc = "done", !.frames = <<>>, !.result = j]
  ELSE LET up == ser.frames[Len(ser.frames) - 1]
           obj == Heap[up.a]
       IN IF KeyRaises(obj, up.i)
          THEN ser' = [ser EXCEPT !.pc = "done", !.frames = <<>>,
                                  !.result = Raised("str(key)")]
          ELSE ser' = [ser EXCEPT !.frames =
                         Append(SubSeq(ser.frames, 1, Len(ser.frames) - 2),
                                [up EXCEPT !.i = up.i + 1,
                                           !.acc = AddKid(obj, up.acc, up.i, j)])]

\* lines 99-109, 128-132: the checks made on entry
SerEnter ==
  /\ ser.pc = "run"
  /\ SerTop.st = "enter"
  /\ IF DepthExceeded(SerTop.depth, ser.max_depth) THEN SerReturn(MaxDepthMarker)
     ELSE IF IsContainer(Heap[SerTop.a])
     THEN ser' = [ser EXCEPT !.frames = Append(SerPop, [SerTop EXCEPT !.st = "iter"])]
     ELSE SerReturn(SerializeLeaf(Heap[SerTop.a]))
  /\ UNCHANGED <<instr, file, caches, loaded, tc, finalizers, wrappers, stack, calls, clock, last,
                 exits>>

\* lines 112, 117, 124-125: the loop takes the next kid; a private attribute is
\* skipped, any other kid is serialized by a recursive call with depth + 1
SerDescend ==
  /\ ser.pc = "run"
  /\ SerTop.st = "iter"
  /\ SerTop.i <= Len(Heap[SerTop.a].kids)
  /\ IF SkipsKid(Heap[SerTop.a], SerTop.i)
     THEN ser' = [ser EXCEPT !.frames = Append(SerPop, [SerTop EXCEPT !.i = SerTop.i + 1])]
     ELSE ser' = [ser EXCEPT
                    !.frames = Append(ser.frames,
                                      SerFrame(Heap[SerTop.a].kids[SerTop.i].v, SerTop.depth + 1)),
                    !.deepest = IF SerTop.depth + 1 > @ THEN SerTop.depth + 1 ELSE @]
  /\ UNCHANGED <<instr, file, caches, loaded, tc, finalizers, wrappers, stack, calls, clock, last,
                 exits>>

\* lines 112, 118, 126: the loop is over and the container's result is returned
SerFinish ==
  /\ ser.pc = "run"
  /\ SerTop.st = "iter"
  /\ SerTop.i > Len(Heap[SerTop.a].kids)
  /\ SerReturn(Container(Heap[SerTop.a], SerTop.acc))
  /\ UNCHANGED <<instr, file, caches, loaded, tc, finalizers, wrappers, stack, calls, clock, last,
                 exits>>

NextSer ==
  \/ SerEnter
  \/ SerDescend
  \/ SerFinish

SpecSer == InitSer /\ [][NextSer]_vars /\ WF_vars(NextSer)

\* The step-by-step run ends with the value the recursive definition gives.
SerAgrees ==
  ser.pc = "done" => ser.result = serialize_value(Heap[ser.root], 0, ser.max_depth)

\* ================================================================== claims

Min(a, b) == IF a < b THEN a ELSE b
CallCountOf(cache, f) == IF Has(cache, f) THEN Get(cache, f).callCount ELSE 0
\* the samples record_call keeps for index i of function f (under the int key)
SamplesAt(cache, f, i) ==
  IF Has(cache, f) /\ HasKey(Get(cache, f).paramData, IntKey(i))
  THEN Samples(Get(cache, f).paramData, IntKey(i)) ELSE <<>>

\* C1: in every TypeCache of the process, whether its constructor loaded a
\* cache file or not and whatever calls were recorded since, every sample
\* sequence of every function holds at most MAX_SAMPLES_PER_PARAM samples.
C1_SampleBound ==
  \A c \in DOMAIN caches : \A e \in DOMAIN caches[c] :
    \A i \in DOMAIN caches[c][e].paramData :
      Len(caches[c][e].paramData[i].v) <= MAX_SAMPLES_PER_PARAM

\* a call that evicted has just been recorded into a cache that was loaded
\* from a file of an earlier process, and a sequence is full
C1_Witness ==
  /\ last.op = "record_call"
  /\ last.evicted > 0
  /\ loaded[last.c] # EmptyCache
  /\ Len(SamplesAt(caches[last.c], "m.add", 0)) = MAX_SAMPLES_PER_PARAM
  /\ Len(SamplesAt(caches[last.c], "m.add", 1)) < MAX_SAMPLES_PER_PARAM

\* the last min(n, MAX_SAMPLES_PER_PARAM) of the values ..., newest - 1, newest
FifoExpected(n, newest) ==
  [j \in 1..Min(n, MAX_SAMPLES_PER_PARAM) |->
     JInt(newest - Min(n, MAX_SAMPLES_PER_PARAM) + j)]
\* C2: in a TypeCache that started empty, after N calls f(v) with the distinct
\* values v = k+1, k+2, ..., k+N in call order, the samples of index 0 are the
\* last min(N, MAX_SAMPLES_PER_PARAM) of them, in call order.
C2_Fifo ==
  \A c \in DOMAIN caches :
    loaded[c] = EmptyCache =>
      SamplesAt(caches[c], "m.f", 0) = FifoExpected(calls[c]["m.f"], clock)

\* 51 calls were recorded: the first value is gone, the second is the oldest
C2_Witness ==
  /\ tc # 0
  /\ loaded[tc] = EmptyCache
  /\ calls[tc]["m.f"] = MAX_SAMPLES_PER_PARAM + 1
  /\ Len(SamplesAt(caches[tc], "m.f", 0)) = MAX_SAMPLES_PER_PARAM
  /\ SamplesAt(caches[tc], "m.f", 0)[1] = JInt(clock - MAX_SAMPLES_PER_PARAM + 1)
  /\ last.evicted = 1

\* C3: callCount of a function is the count its TypeCache was constructed with
\* plus one for every record_call made since (so it never decreases and an
\* eviction does not reset it); from an empty cache, N calls with one
\* positional argument give callCount = N and min(N, MAX_SAMPLES_PER_PARAM)
\* samples.
C3_CallCount ==
  \A c \in DOMAIN caches :
    /\ CallCountOf(caches[c], "m.f") = CallCountOf(loaded[c], "m.f") + calls[c]["m.f"]
    /\ loaded[c] = EmptyCache =>
         Len(SamplesAt(caches[c], "m.f", 0)) = Min(calls[c]["m.f"], MAX_SAMPLES_PER_PARAM)

\* more calls than samples: callCount has gone on past the eviction
C3_Witness ==
  /\ tc # 0
  /\ loaded[tc] = EmptyCache
  /\ last.evicted = 1
  /\ CallCountOf(caches[tc], "m.f") = MAX_SAMPLES_PER_PARAM + 2
  /\ Len(SamplesAt(caches[tc], "m.f", 0)) = MAX_SAMPLES_PER_PARAM

\* a call by keyword only, naming the first parameters, and its positional form
KwOnly(call) == call.args = <<>> /\ call.kwargs # <<>>
CoversPrefix(call, names) ==
  /\ Len(call.kwargs) <= Len(names)
  /\ \A i \in 1..Len(call.kwargs) : KwHas(call.kwargs, names[i])
AsPositional(call, names) ==
  Call([i \in 1..Len(call.kwargs) |-> KwGet(call.kwargs, names[i])], <<>>)
RecordCallStep == clock' = clock + 1 /\ last'.op = "record_call"
\* C4: a keyword argument is recorded at the index its name has in the
\* parameter names: the call leaves the sample under that index, and a call
\* that passes the first n parameters by keyword changes the cache exactly as
\* the call that passes the same values positionally (add(2, 3) then
\* add(a=5, b=7) gives [2, 5] and [3, 7] and callCount 2).
C4_KeywordAtPositionalIndex ==
  [][RecordCallStep =>
       LET c == last'.c
           f == last'.f
           call == last'.call
           names == Signature(f)
       IN /\ ~last'.raised =>
               \A i \in DOMAIN names :
                 KwHas(call.kwargs, names[i]) =>
                   LET got == SamplesAt(caches'[c], f, i - 1) IN
                   /\ got # <<>>
                   /\ got[Len(got)] =
                        serialize_value(KwGet(call.kwargs, names[i]), 0, DEFAULT_MAX_DEPTH)
          /\ (KwOnly(call) /\ CoversPrefix(call, names)) =>
               caches'[c] = record_call(caches[c], f, AsPositional(call, names).args, <<>>,
                                        names).cache
    ]_vars

\* add(2, 3), then add(a=5, b=7), recorded into an empty cache
C4_Witness ==
  /\ last.op = "record_call"
  /\ last.call = Call(<<>>, <<Kw("a", PyInt(5)), Kw("b", PyInt(7))>>)
  /\ loaded[last.c] = EmptyCache
  /\ SamplesAt(caches[last.c], "m.add", 0) = <<JInt(2), JInt(5)>>
  /\ SamplesAt(caches[last.c], "m.add", 1) = <<JInt(3), JInt(7)>>
  /\ CallCountOf(caches[last.c], "m.add") = 2

\* C6: save() on an empty cache leaves the file as it is, absent or not; the
\* file changes only in a step that saves a non-empty cache.
C6_EmptySaveIsNoOp ==
  [][/\ (last'.op = "save" /\ caches[last'.c] = EmptyCache) => file' = file
     /\ file' # file =>
          /\ last'.op \in {"save", "exit"}
          /\ last'.c \in DOMAIN caches
          /\ caches[last'.c] # EmptyCache
    ]_vars

\* save() has just returned on an empty cache and the file of an earlier save
\* is still there with its entries
C6_Witness ==
  /\ last.op = "save"
  /\ caches[last.c] = EmptyCache
  /\ file.kind = "json"
  /\ file.data # <<>>

\* C7 (as claimed): when load() returns and the file is missing, unreadable or
\* malformed, the cache is empty, whatever it held before.
C7_LoadFailureEmpties ==
  (last.op = "load" /\ last.raised) => caches[last.c] = EmptyCache

\* the last n elements of seq; keys of one paramData told apart by string form
LastN(n, seq) == IF Len(seq) <= n THEN seq ELSE SubSeq(seq, Len(seq) - n + 1, Len(seq))
OneKeyPerIndex(pd) ==
  \A i, j \in DOMAIN pd : StrOfKey(pd[i].k) = StrOfKey(pd[j].k) => i = j
\* the samples under the first key of paramData whose string form is chars
StrSamples(cache, f, chars) ==
  IF Has(cache, f) /\ \E i \in DOMAIN Get(cache, f).paramData :
                        StrOfKey(Get(cache, f).paramData[i].k) = chars
  THEN LET pd == Get(cache, f).paramData
           first == CHOOSE i \in DOMAIN pd :
                      /\ StrOfKey(pd[i].k) = chars
                      /\ \A j \in 1..(i - 1) : StrOfKey(pd[j].k) # chars
       IN pd[first].v
  ELSE <<>>
StampsSince(n) == [j \in 1..n |-> JInt(clock - n + j)]
\* C5 (as claimed): a TypeCache and the file hold one sample sequence per
\* parameter index, no two keys of a paramData having the same string form,
\* and the sequence of index 0 of f holds, in call order, the last
\* MAX_SAMPLES_PER_PARAM of the samples the constructor loaded followed by the
\* samples recorded since.
C5_OneSequencePerIndex ==
  /\ \A c \in DOMAIN caches : \A e \in DOMAIN caches[c] :
       OneKeyPerIndex(caches[c][e].paramData)
  /\ \A e \in DOMAIN file.data : OneKeyPerIndex(file.data[e].paramData)
  /\ \A c \in DOMAIN caches :
       StrSamples(caches[c], "m.f", <<"0">>) =
         LastN(MAX_SAMPLES_PER_PARAM,
               StrSamples(loaded[c], "m.f", <<"0">>) \o StampsSince(calls[c]["m.f"]))

\* C8: a call of a wrapper calls the wrapped callable exactly once, with the
\* arguments the wrapper was called with, and ends as the callable ended,
\* whether record_call raised or not.
C8_WrapperTransparent ==
  last.op = "call" =>
    /\ last.obs.invoked = 1
    /\ last.obs.fcall = last.obs.call
    /\ last.obs.wout = last.obs.fout

\* record_call raised, and the caller got the callable's return value
C8_Witness ==
  /\ last.op = "call"
  /\ last.raised
  /\ last.obs.invoked = 1
  /\ last.obs.fout = Outcome("return", 1)
  /\ last.obs.wout = Outcome("return", 1)

\* C9 (as claimed): _serialize_value never raises, whatever the value.
C9_SerializeNeverRaises == ser.pc = "done" => ~IsRaised(ser.result)

\* no frame of the recursion is deeper than max_depth + 1, and one that deep
\* has not gone into its value
DepthBounded ==
  /\ ser.deepest <= ser.max_depth + 1
  /\ \A n \in DOMAIN ser.frames :
       /\ ser.frames[n].depth <= ser.max_depth + 1
       /\ ser.frames[n].depth = ser.max_depth + 1 => ser.frames[n].st = "enter"
\* C10: serializing a value that contains itself ends, no call of the
\* recursion has a depth above max_depth + 1, and a call at that depth returns
\* at once (with the marker) instead of going into the value.
C10_SelfReferenceTerminates ==
  /\ [](SelfReferential(ser.root) => DepthBounded)
  /\ SelfReferential(ser.root) => <>(ser.pc = "done")

\* a self-containing value has been serialized with the default max_depth: the
\* recursion went max_depth + 1 deep and the marker is what it found there
C10_Witness ==
  /\ SelfReferential(ser.root)
  /\ ser.max_depth = DEFAULT_MAX_DEPTH
  /\ ser.pc = "done"
  /\ ser.deepest = DEFAULT_MAX_DEPTH + 1
  /\ ~IsRaised(ser.result)
  /\ ser.result # MaxDepthMarker

\* the sequences and mappings of the claim: lists and dicts with str or int
\* keys, within lists and dicts, with None, int and str leaves
Plain(a) ==
  /\ Heap[a].kind \in {"list", "dict"}
  /\ \A b \in {a} \cup ReachFrom({a}, {}) :
       /\ Heap[b].kind \in {"list", "dict", "int", "str", "none"}
       /\ Heap[b].kind = "dict" =>
            \A i \in DOMAIN Heap[b].kids : Heap[b].kids[i].k.kt \in {"int", "str"}
\* no two keys of one dict have the same string form
DistinctKeyForms(a) ==
  \A b \in {a} \cup ReachFrom({a}, {}) :
    Heap[b].kind = "dict" =>
      \A i, k \in DOMAIN Heap[b].kids :
        StrOfKey(Heap[b].kids[i].k) = StrOfKey(Heap[b].kids[k].k) => i = k
\* j has the structure, the element order and the leaves of the value at a,
\* which sits at the given depth, with the marker for what is deeper than
\* max_depth (a dict's keys in their string form)
RECURSIVE SameShape(_, _, _, _)
SameShape(a, j, depth, max_depth) ==
  IF depth > max_depth THEN j = MaxDepthMarker
  ELSE CASE Heap[a].kind = "int" -> j = JInt(Heap[a].ival)
         [] Heap[a].kind = "str" -> j = JStr(Heap[a].sval)
         [] Heap[a].kind = "none" -> j = JNull
         [] Heap[a].kind \in {"list", "dict"} ->
              /\ j.t = Heap[a].kind
              /\ Len(j.items) = Len(Heap[a].kids)
              /\ \A i \in DOMAIN Heap[a].kids :
                   /\ Heap[a].kind = "dict" =>
                        j.items[i].k = StrOfKey(Heap[a].kids[i].k)
                   /\ SameShape(Heap[a].kids[i].v, j.items[i].v, depth + 1, max_depth)
         [] OTHER -> FALSE

\* C11 (as claimed): the serialization of a sequence or mapping has the
\* structure, the element order and the leaves of the input down to depth
\* max_depth, and the marker in place of every value deeper than that.
C11_StructurePreserved ==
  (ser.pc = "done" /\ Plain(ser.root)) =>
    SameShape(ser.root, ser.result, 0, ser.max_depth)

\* C11 (amended): the same, for the sequences and mappings in which no two
\* keys of one mapping have the same string form.
C11_StructurePreservedDistinctKeys ==
  (ser.pc = "done" /\ Plain(ser.root) /\ DistinctKeyForms(ser.root)) =>
    SameShape(ser.root, ser.result, 0, ser.max_depth)

\* [[[5]]] serialized with max_depth 2: the lists are kept and the marker
\* stands for the 5, which sits at depth 3
C11_Witness ==
  /\ ser.pc = "done"
  /\ ser.root = 21
  /\ ser.max_depth = 2
  /\ ser.result = JList(<<JItem(<<>>, JList(<<JItem(<<>>,
                      JList(<<JItem(<<>>, MaxDepthMarker)>>))>>))>>)

\* path is the directory root or lies in its tree
Descendant(path, root) == path = root \/ StartsWith(path, root \o <<"/">>)
\* the module's file lies in the tree of the workspace root of install
InTree(mod) ==
  /\ ModuleFile(mod) # NoPath
  /\ Descendant(abspath(ModuleFile(mod)), abspath(WorkspaceRootArg))
ImportStep == imp'.n = imp.n + 1

\* C12 (as claimed): a module whose file lies outside the tree of the
\* workspace root (a sibling directory whose name starts with the root's name
\* included) is not instrumented by an import, and none of its names is bound
\* to a wrapper.
C12_OnlyWorkspaceModules ==
  /\ (imp.module # "" /\ ~InTree(imp.module)) => ~imp.instrumented
  /\ \A mod \in ModuleNames :
       ~InTree(mod) => \A i \in DOMAIN modules[mod] : ~IsWrapper(modules[mod][i].obj)

\* C13 (as claimed): the import of a module that its loader has not seen
\* evaluates its eligibility and marks it processed, skipped or not, so that
\* no loader evaluates a module twice; the import of a module that is skipped
\* changes no binding and no cache.
C13_EvaluatedOnceThenTerminal ==
  [][ImportStep =>
       /\ imp'.module \in loaders'[imp'.loader].instrumented_modules
       /\ evals'[imp'.loader][imp'.module] <= 1
       /\ ~imp'.instrumented => (modules' = modules /\ caches' = caches)
    ]_vars

\* C14 (as claimed): however often install_instrumentation was called in the
\* process, there is one TypeCache and one loader, and one finalizer is
\* registered, so that the exit saves the cache once.
C14_InstallIdempotent ==
  tc # 0 => (Len(caches) = 1 /\ Len(loaders) = 1 /\ finalizers = 1)

\* the bindings the claim names: callable, public, not a wrapper already, and
\* owned by the module
ShouldBeWrapped(mod, b) ==
  /\ b.obj.kind = "function" \/ b.obj.layers # <<>>
  /\ b.name[1] # "_"
  /\ b.obj.layers = <<>>
  /\ b.obj.owner = mod
\* C15: the import that instruments a module replaces each of these bindings
\* by a wrapper of the original, named <module>.<symbol> and recording into the
\* loader's cache, and leaves every other binding, of this module and of the
\* other modules, as it is.
C15_WrapsExactlyEligible ==
  [][(ImportStep /\ imp'.instrumented) =>
       LET mod == imp'.module IN
       /\ \A other \in ModuleNames \ {mod} : modules'[other] = modules[other]
       /\ DOMAIN modules'[mod] = DOMAIN modules[mod]
       /\ \A i \in DOMAIN modules[mod] :
            LET old == modules[mod][i]
                new == modules'[mod][i]
            IN IF ShouldBeWrapped(mod, old)
               THEN /\ new.name = old.name
                    /\ new.obj.kind = old.obj.kind
                    /\ new.obj.owner = old.obj.owner
                    /\ new.obj.layers =
                         <<Wrapper(QualifiedName(mod, old.name),
                                   loaders[imp'.loader].type_cache)>>
               ELSE new = old
    ]_vars

\* m has been instrumented: add and f are wrapped under m.add and m.f; the
\* re-exported g, the value K and the private _p are what they were
C15_Witness ==
  /\ imp.module = "m"
  /\ imp.instrumented
  /\ modules["m"] =
       <<Binding(<<"g">>, Obj("function", "o")),
         Binding(<<"K">>, Obj("value", "")),
         Binding(<<"a", "d", "d">>,
                 [Obj("function", "m") EXCEPT !.layers = <<Wrapper("m.add", imp.loader)>>]),
         Binding(<<"f">>,
                 [Obj("function", "m") EXCEPT !.layers = <<Wrapper("m.f", imp.loader)>>]),
         Binding(<<"_", "p">>, Obj("function", "m"))>>

\* a wrapper call has just recorded (the step of lines 154-157)
WrapperRecordStep == clock' = clock + 1 /\ last'.op \in {"recorded", "call"}
\* C16: no binding is a wrapper of a wrapper, whatever was imported and
\* re-imported and however often install_instrumentation was called, and a
\* call of a wrapped function adds one to its callCount, in one cache.
C16_NeverDoubleWrapped ==
  /\ [](\A mod \in ModuleNames : \A i \in DOMAIN modules[mod] :
          Len(modules[mod][i].obj.layers) <= 1)
  /\ [][WrapperRecordStep =>
          /\ CallCountOf(caches'[last'.c], last'.f) = CallCountOf(caches[last'.c], last'.f) + 1
          /\ \A c \in DOMAIN caches \ {last'.c} : caches'[c] = caches[c]
       ]_vars

\* install_instrumentation was called again and m imported again: the new
\* loader went through m's bindings, f is still the wrapper of the first
\* install, and one call of it has been counted once
C16_Witness ==
  /\ loader = 2
  /\ imp.module = "m"
  /\ imp.loader = 2
  /\ imp.instrumented
  /\ \E i \in DOMAIN modules["m"] :
       /\ modules["m"][i].name = <<"f">>
       /\ modules["m"][i].obj.layers = <<Wrapper("m.f", 1)>>
  /\ last.op = "recorded"
  /\ CallCountOf(caches[1], "m.f") = 1

\* C17 (as claimed): every wrapper of a function of m records into the
\* TypeCache that the exit finalizers save (_type_cache), and every call that
\* was recorded is in that TypeCache.
C17_WrappersRecordIntoSavedCache ==
  /\ \A w \in wrappers : w.func_name \in FuncNames => w.type_cache = tc
  /\ \A c \in DOMAIN calls : \A f \in FuncNames : calls[c][f] > 0 => c = tc

\* C18 (as claimed): a record_call that raises leaves every sample sequence
\* as it was: nothing of the failed call appended, nothing evicted.
C18_FailedRecordLeavesNoSample ==
  [][(RecordCallStep /\ last'.raised) =>
       /\ \A i \in 0..1 :
            SamplesAt(caches'[last'.c], last'.f, i) = SamplesAt(caches[last'.c], last'.f, i)
       /\ last'.evicted = 0
    ]_vars

\* the entry of function g in a cache, or none
EntryOf(cache, g) == IF Has(cache, g) THEN <<Get(cache, g)>> ELSE <<>>
\* C19: record_call for f leaves the entry of every other function, the
\* other caches and the cache file as they are.
C19_RecordCallFrame ==
  [][RecordCallStep =>
       /\ \A g \in FuncNames \ {last'.f} :
            EntryOf(caches'[last'.c], g) = EntryOf(caches[last'.c], g)
       /\ \A c \in DOMAIN caches \ {last'.c} : caches'[c] = caches[c]
       /\ file' = file
    ]_vars

\* a call of m.f has been recorded into a cache that holds the entry of m.add,
\* loaded from the file an earlier process saved
C19_Witness ==
  /\ last.op = "record_call"
  /\ last.f = "m.f"
  /\ Has(caches[last.c], "m.add")
  /\ Has(caches[last.c], "m.f")
  /\ CallCountOf(caches[last.c], "m.add") = 1
  /\ file.kind = "json"

\* the value the call was made with
StampOf(call) == JInt(call.args[1].ival)
\* C20: every call of m.f that has entered its wrapper is counted and sampled,
\* the calls in progress and the calls whose callable raised included, and
\* the samples stand in the order the calls entered.
C20_RecordedBeforeForwarded ==
  /\ \A c \in DOMAIN caches :
       LET got == SamplesAt(caches[c], "m.f", 0) IN
       /\ Len(got) = calls[c]["m.f"]
       /\ CallCountOf(caches[c], "m.f") = calls[c]["m.f"]
       /\ \A i, j \in DOMAIN got : i < j => got[i].i < got[j].i
  /\ \A n \in DOMAIN stack :
       \E i \in DOMAIN SamplesAt(caches[stack[n].w.type_cache], "m.f", 0) :
         SamplesAt(caches[stack[n].w.type_cache], "m.f", 0)[i] = StampOf(stack[n].call)
  /\ (last.op = "call" /\ last.c \in DOMAIN caches) =>
       \E i \in DOMAIN SamplesAt(caches[last.c], "m.f", 0) :
         SamplesAt(caches[last.c], "m.f", 0)[i] = StampOf(last.call)

\* f called f; the inner call's callable raised while the outer call is in
\* progress: both calls are counted, the outer sample first
C20_Witness ==
  /\ Len(stack) = 1
  /\ last.op = "call"
  /\ last.obs.fout.kind = "raise"
  /\ SamplesAt(caches[last.c], "m.f", 0) = <<StampOf(stack[1].call), StampOf(last.call)>>
  /\ CallCountOf(caches[last.c], "m.f") = 2

====
